---- MODULE Spec2Model ----
(***************************************************************************)
(* Model of the problem detector of media-parser-cli (package detector,    *)
(* src/unnamed/part_000): the Detector's collection of findings, the five  *)
(* analyzers that append to it, and the pure GenerateBitrateTimeline.      *)
(*                                                                         *)
(* Time.  PTS, DTS, window widths and finding timestamps are float64       *)
(* seconds in the source.  Here they are integers counting half seconds    *)
(* (Second == 2 ticks), so 0.5s, 1.0s, 1.5s ... are exact, as they are in  *)
(* float64.  A DTS of 0 is the source's "absent" DTS.                      *)
(*                                                                         *)
(* Sizes are integers (Go int).  Bitrates of the detector are bytes*8/1.0, *)
(* an integer; the statistics over them (mean, population variance, the    *)
(* coefficient of variation, the spike limit) are computed here in exact   *)
(* rational arithmetic by cross-multiplication, where the source uses      *)
(* float64 division, math.Pow and math.Sqrt.  The two agree wherever the   *)
(* exact comparison is not an equality; within the inputs below the        *)
(* coefficient of variation never equals 0.3, and a bitrate equals 2.5 x   *)
(* the mean only where the mean is an integer, which float64 holds exactly.*)
(***************************************************************************)
EXTENDS Integers, Sequences, FiniteSets

\* ---------------------------------------------------------------- bounds
MaxLen == 3
MaxPTS == 3
MaxSize == 1
MaxDTS == 2
MaxUniformLen == 6
MaxStart == 4
MaxSpacing == 3
MaxSparseLen == 8
BigSize == 10
MaxKeyLen == 3
MaxKeySteps == 3
MaxWindow == 2
MaxCalls == 2
MaxSeqLen == 2
MaxLimit == 1
MaxVizLen == 3

\* ------------------------------------------------------------ time units
Second == 2                      \* ticks per second
timeWindow == Second             \* part_000:133  timeWindow := 1.0
LargePtsGap == Second            \* part_000:280  ptsDiff > 1.0
PacketLossGap == Second \div 2   \* part_000:333  ptsDiff > 0.5
LargeKeyInterval == 10 * Second  \* part_000:247  avgInterval > 10.0

\* ------------------------------------------------- records of the source
PacketInfo(pts, size) == [PTS |-> pts, Size |-> size]

FrameInfo(key, pts, dts) == [KeyFrame |-> key, PTS |-> pts, DTS |-> dts]

\* Message is the format string's name with its %d arguments; values the
\* source prints with %.2f / %.3f are not part of the record.
Problem(sev, cat, code, args, ts) ==
  [Severity |-> sev, Category |-> cat, Code |-> code,
   Args |-> args, Timestamp |-> ts]

\* A bitrate in bits per second as the fraction num/den.
BitratePoint(time, num, den) ==
  [Time |-> time, Num |-> num, Den |-> den, Type |-> "total"]

\* Zero value of Timestamp: the field is omitted (omitempty).
NoTimestamp == 0

\* --------------------------------------------------------------- helpers
RECURSIVE SumSeq(_)
SumSeq(s) == IF s = <<>> THEN 0 ELSE Head(s) + SumSeq(Tail(s))

RECURSIVE SumSqDev(_, _, _)
\* Sum over the points b of (n*b - total)^2, i.e. n^2 * sum (b - avg)^2.
SumSqDev(s, n, total) ==
  IF s = <<>> THEN 0
  ELSE (n * Head(s) - total) * (n * Head(s) - total) + SumSqDev(Tail(s), n, total)

\* ------------------------------------------ DetectBitrateVariations parts
RECURSIVE WindowLoopNoGuard(_, _, _, _, _)
\* Mutant: a closing window is recorded even when it holds no bytes.
WindowLoopNoGuard(packets, i, currentWindow, windowBytes, bitratePoints) ==
  IF i > Len(packets) THEN bitratePoints
  ELSE LET packet == packets[i] IN
    IF packet.PTS > currentWindow + timeWindow
    THEN WindowLoopNoGuard(packets, i + 1, packet.PTS, packet.Size,
                           Append(bitratePoints,
                                  (windowBytes * 8 * Second) \div timeWindow))
    ELSE WindowLoopNoGuard(packets, i + 1, currentWindow,
                           windowBytes + packet.Size, bitratePoints)

RECURSIVE WindowLoopWithFinal(_, _, _, _, _)
\* Mutant: the bytes left after the last packet are a window too.
WindowLoopWithFinal(packets, i, currentWindow, windowBytes, bitratePoints) ==
  IF i > Len(packets)
  THEN IF windowBytes > 0
       THEN Append(bitratePoints, (windowBytes * 8 * Second) \div timeWindow)
       ELSE bitratePoints
  ELSE LET packet == packets[i] IN
    IF packet.PTS > currentWindow + timeWindow
    THEN WindowLoopWithFinal(packets, i + 1, packet.PTS, packet.Size,
                             IF windowBytes > 0
                             THEN Append(bitratePoints,
                                         (windowBytes * 8 * Second) \div timeWindow)
                             ELSE bitratePoints)
    ELSE WindowLoopWithFinal(packets, i + 1, currentWindow,
                             windowBytes + packet.Size, bitratePoints)

RECURSIVE WindowLoop(_, _, _, _, _)
\* The loop over packets: a packet later than currentWindow + 1.0 closes the
\* window (recorded only when it holds bytes) and anchors the next window at
\* its own PTS; any other packet adds its size.  The bytes left after the
\* last packet are dropped.
WindowLoop(packets, i, currentWindow, windowBytes, bitratePoints) ==
  IF i > Len(packets) THEN bitratePoints
  ELSE LET packet == packets[i] IN
    IF packet.PTS > currentWindow + timeWindow
    THEN WindowLoop(packets, i + 1, packet.PTS, packet.Size,
                    IF windowBytes > 0
                    THEN Append(bitratePoints,
                                (windowBytes * 8 * Second) \div timeWindow)
                    ELSE bitratePoints)
    ELSE WindowLoop(packets, i + 1, currentWindow,
                    windowBytes + packet.Size, bitratePoints)

BitratePoints(packets) == WindowLoop(packets, 1, 0, 0, <<>>)

\* Mutant: the sample standard deviation (variance over n - 1).
HighVarianceSample(bitratePoints) ==
  LET n == Len(bitratePoints)
      totalBitrate == SumSeq(bitratePoints)
  IN 100 * SumSqDev(bitratePoints, n, totalBitrate)
       > 9 * (n - 1) * totalBitrate * totalBitrate

\* coefficientOfVariation > 0.3, with stdDev = sqrt(variance / n) and
\* avg = total / n: squared and cross-multiplied (total > 0, n > 0):
\*   variance / n / avg^2 > 9/100  <=>  100 * sum (n*b - total)^2 > 9 * n * total^2
HighVariance(bitratePoints) ==
  LET n == Len(bitratePoints)
      totalBitrate == SumSeq(bitratePoints)
  IN 100 * SumSqDev(bitratePoints, n, totalBitrate)
       > 9 * n * totalBitrate * totalBitrate

\* Mutant: the spike limit at 2.0 x the mean.
IsSpikeDouble(bitrate, bitratePoints) ==
  Len(bitratePoints) * bitrate > 2 * SumSeq(bitratePoints)

\* bitrate > avgBitrate * 2.5, cross-multiplied by 2 * n.
IsSpike(bitrate, bitratePoints) ==
  2 * Len(bitratePoints) * bitrate > 5 * SumSeq(bitratePoints)

RECURSIVE SpikeLoop(_, _)
SpikeLoop(bitratePoints, i) ==
  IF i > Len(bitratePoints) THEN <<>>
  ELSE (IF IsSpike(bitratePoints[i], bitratePoints)
        THEN << Problem("Warning", "Bitrate", "BITRATE_SPIKE", <<>>,
                        (i - 1) * timeWindow) >>
        ELSE <<>>)
       \o SpikeLoop(bitratePoints, i + 1)

\* The divisors of the divisions a call evaluates, in order: the number of
\* points under totalBitrate, the number of points under variance, and
\* avgBitrate (of the sign of totalBitrate) under stdDev.
BitrateDivisors(packets) ==
  IF Len(packets) < 2 THEN <<>>
  ELSE LET bitratePoints == BitratePoints(packets) IN
    IF Len(bitratePoints) = 0 THEN <<>>
    ELSE << Len(bitratePoints), Len(bitratePoints), SumSeq(bitratePoints) >>

BitrateFindings(packets) ==
  IF Len(packets) < 2 THEN <<>>
  ELSE LET bitratePoints == BitratePoints(packets) IN
    IF Len(bitratePoints) = 0 THEN <<>>
    ELSE (IF HighVariance(bitratePoints)
          THEN << Problem("Warning", "Bitrate", "BITRATE_HIGH_VARIANCE",
                          <<>>, NoTimestamp) >>
          ELSE <<>>)
         \o SpikeLoop(bitratePoints, 1)

\* --------------------------------------------- DetectKeyframeIssues parts
Keyframes(frames) == SelectSeq(frames, LAMBDA frame : frame.KeyFrame)

RECURSIVE TotalInterval(_, _)
\* Sum of keyframes[i].PTS - keyframes[i-1].PTS for i = 2 .. Len(keyframes).
TotalInterval(keyframes, i) ==
  IF i > Len(keyframes) THEN 0
  ELSE (keyframes[i].PTS - keyframes[i - 1].PTS) + TotalInterval(keyframes, i + 1)

\* Mutant: NO_KEYFRAMES only when there is no key-frame at all.
KeyframeFindingsNoneOnly(frames) ==
  IF Len(frames) = 0 THEN <<>>
  ELSE LET keyframes == Keyframes(frames) IN
    IF Len(keyframes) < 1
    THEN << Problem("Error", "Keyframe", "NO_KEYFRAMES", <<>>, NoTimestamp) >>
    ELSE IF TotalInterval(keyframes, 2) > LargeKeyInterval * (Len(keyframes) - 1)
      THEN << Problem("Warning", "Keyframe", "LARGE_KEYFRAME_INTERVAL",
                      <<>>, NoTimestamp) >>
      ELSE <<>>

\* Mutant: a mean interval of exactly 10.0 counts as too large.
KeyframeFindingsInclusive(frames) ==
  IF Len(frames) = 0 THEN <<>>
  ELSE LET keyframes == Keyframes(frames) IN
    IF Len(keyframes) < 2
    THEN << Problem("Error", "Keyframe", "NO_KEYFRAMES", <<>>, NoTimestamp) >>
    ELSE IF TotalInterval(keyframes, 2) >= LargeKeyInterval * (Len(keyframes) - 1)
      THEN << Problem("Warning", "Keyframe", "LARGE_KEYFRAME_INTERVAL",
                      <<>>, NoTimestamp) >>
      ELSE <<>>

\* The divisor of avgInterval: len(intervals), reached with 2 key-frames
\* or more.
KeyframeDivisors(frames) ==
  IF Len(frames) = 0 THEN <<>>
  ELSE IF Len(Keyframes(frames)) < 2 THEN <<>>
  ELSE << Len(Keyframes(frames)) - 1 >>

KeyframeFindings(frames) ==
  IF Len(frames) = 0 THEN <<>>
  ELSE LET keyframes == Keyframes(frames) IN
    IF Len(keyframes) < 2
    THEN << Problem("Error", "Keyframe", "NO_KEYFRAMES", <<>>, NoTimestamp) >>
    ELSE \* avgInterval > 10.0, avgInterval = totalInterval / len(intervals)
      IF TotalInterval(keyframes, 2) > LargeKeyInterval * (Len(keyframes) - 1)
      THEN << Problem("Warning", "Keyframe", "LARGE_KEYFRAME_INTERVAL",
                      <<>>, NoTimestamp) >>
      ELSE <<>>

\* -------------------------------------------- DetectTimestampIssues parts
\* Mutant: a PTS gap of exactly 1.0 counts as large.
PairFindingsGapInclusive(frames, i) ==
  LET cur == frames[i]
      prev == frames[i - 1]
      ptsDiff == cur.PTS - prev.PTS
  IN (IF cur.PTS < prev.PTS
      THEN << Problem("Error", "Timestamp", "NON_MONOTONIC_PTS",
                      << i - 1 >>, cur.PTS) >>
      ELSE <<>>)
     \o (IF ptsDiff >= LargePtsGap
         THEN << Problem("Warning", "Timestamp", "LARGE_PTS_GAP",
                         << i - 1 >>, cur.PTS) >>
         ELSE <<>>)
     \o (IF cur.DTS > 0 /\ prev.DTS > 0
         THEN (IF cur.DTS < prev.DTS
               THEN << Problem("Error", "Timestamp", "NON_MONOTONIC_DTS",
                               << i - 1 >>, cur.PTS) >>
               ELSE <<>>)
              \o (IF cur.PTS < cur.DTS
                  THEN << Problem("Error", "Timestamp", "PTS_BEFORE_DTS",
                                  << i - 1 >>, cur.PTS) >>
                  ELSE <<>>)
         ELSE <<>>)

\* Mutant: a DTS of zero counts as present.
PairFindingsDtsFromZero(frames, i) ==
  LET cur == frames[i]
      prev == frames[i - 1]
      ptsDiff == cur.PTS - prev.PTS
  IN (IF cur.PTS < prev.PTS
      THEN << Problem("Error", "Timestamp", "NON_MONOTONIC_PTS",
                      << i - 1 >>, cur.PTS) >>
      ELSE <<>>)
     \o (IF ptsDiff > LargePtsGap
         THEN << Problem("Warning", "Timestamp", "LARGE_PTS_GAP",
                         << i - 1 >>, cur.PTS) >>
         ELSE <<>>)
     \o (IF cur.DTS >= 0 /\ prev.DTS >= 0
         THEN (IF cur.DTS < prev.DTS
               THEN << Problem("Error", "Timestamp", "NON_MONOTONIC_DTS",
                               << i - 1 >>, cur.PTS) >>
               ELSE <<>>)
              \o (IF cur.PTS < cur.DTS
                  THEN << Problem("Error", "Timestamp", "PTS_BEFORE_DTS",
                                  << i - 1 >>, cur.PTS) >>
                  ELSE <<>>)
         ELSE <<>>)

\* Mutant: the gap check is skipped for a pair whose DTS went backwards.
PairFindingsGapUnlessDts(frames, i) ==
  LET cur == frames[i]
      prev == frames[i - 1]
      ptsDiff == cur.PTS - prev.PTS
      dts == cur.DTS > 0 /\ prev.DTS > 0
  IN (IF cur.PTS < prev.PTS
      THEN << Problem("Error", "Timestamp", "NON_MONOTONIC_PTS",
                      << i - 1 >>, cur.PTS) >>
      ELSE <<>>)
     \o (IF ptsDiff > LargePtsGap /\ ~(dts /\ cur.DTS < prev.DTS)
         THEN << Problem("Warning", "Timestamp", "LARGE_PTS_GAP",
                         << i - 1 >>, cur.PTS) >>
         ELSE <<>>)
     \o (IF dts
         THEN (IF cur.DTS < prev.DTS
               THEN << Problem("Error", "Timestamp", "NON_MONOTONIC_DTS",
                               << i - 1 >>, cur.PTS) >>
               ELSE <<>>)
              \o (IF cur.PTS < cur.DTS
                  THEN << Problem("Error", "Timestamp", "PTS_BEFORE_DTS",
                                  << i - 1 >>, cur.PTS) >>
                  ELSE <<>>)
         ELSE <<>>)

\* The findings of one loop iteration, for the pair (i-1, i); i is 1-based
\* here and the source's 0-based frame number i-1 goes into the message.
PairFindings(frames, i) ==
  LET cur == frames[i]
      prev == frames[i - 1]
      ptsDiff == cur.PTS - prev.PTS
  IN (IF cur.PTS < prev.PTS
      THEN << Problem("Error", "Timestamp", "NON_MONOTONIC_PTS",
                      << i - 1 >>, cur.PTS) >>
      ELSE <<>>)
     \o (IF ptsDiff > LargePtsGap
         THEN << Problem("Warning", "Timestamp", "LARGE_PTS_GAP",
                         << i - 1 >>, cur.PTS) >>
         ELSE <<>>)
     \o (IF cur.DTS > 0 /\ prev.DTS > 0
         THEN (IF cur.DTS < prev.DTS
               THEN << Problem("Error", "Timestamp", "NON_MONOTONIC_DTS",
                               << i - 1 >>, cur.PTS) >>
               ELSE <<>>)
              \o (IF cur.PTS < cur.DTS
                  THEN << Problem("Error", "Timestamp", "PTS_BEFORE_DTS",
                                  << i - 1 >>, cur.PTS) >>
                  ELSE <<>>)
         ELSE <<>>)

RECURSIVE TimestampLoop(_, _)
TimestampLoop(frames, i) ==
  IF i > Len(frames) THEN <<>>
  ELSE PairFindings(frames, i) \o TimestampLoop(frames, i + 1)

TimestampFindings(frames) ==
  IF Len(frames) < 2 THEN <<>> ELSE TimestampLoop(frames, 2)

\* ------------------------------------------------- DetectPacketLoss parts
RECURSIVE PacketLossLoopInclusive(_, _)
\* Mutant: a PTS jump of exactly 0.5 counts as a loss.
PacketLossLoopInclusive(packets, i) ==
  IF i > Len(packets) THEN <<>>
  ELSE (IF packets[i].PTS - packets[i - 1].PTS >= PacketLossGap
        THEN << Problem("Warning", "PacketLoss", "POTENTIAL_PACKET_LOSS",
                        <<>>, packets[i].PTS) >>
        ELSE <<>>)
       \o PacketLossLoopInclusive(packets, i + 1)

RECURSIVE PacketLossLoopEscalating(_, _)
\* Mutant: a loss after the first pair is reported as an Error.
PacketLossLoopEscalating(packets, i) ==
  IF i > Len(packets) THEN <<>>
  ELSE (IF packets[i].PTS - packets[i - 1].PTS > PacketLossGap
        THEN << Problem(IF i > 2 THEN "Error" ELSE "Warning", "PacketLoss",
                        "POTENTIAL_PACKET_LOSS", <<>>, packets[i].PTS) >>
        ELSE <<>>)
       \o PacketLossLoopEscalating(packets, i + 1)

RECURSIVE PacketLossLoop(_, _)
PacketLossLoop(packets, i) ==
  IF i > Len(packets) THEN <<>>
  ELSE (IF packets[i].PTS - packets[i - 1].PTS > PacketLossGap
        THEN << Problem("Warning", "PacketLoss", "POTENTIAL_PACKET_LOSS",
                        <<>>, packets[i].PTS) >>
        ELSE <<>>)
       \o PacketLossLoop(packets, i + 1)

\* Mutant: the first packet is compared with the start of the stream.
PacketLossFindingsFromStart(packets) ==
  IF Len(packets) < 1 THEN <<>>
  ELSE (IF packets[1].PTS > PacketLossGap
        THEN << Problem("Warning", "PacketLoss", "POTENTIAL_PACKET_LOSS",
                        <<>>, packets[1].PTS) >>
        ELSE <<>>)
       \o PacketLossLoop(packets, 2)

PacketLossFindings(packets) ==
  IF Len(packets) < 2 THEN <<>> ELSE PacketLossLoop(packets, 2)

\* --------------------------------------------- AnalyzeCompatibility parts
\* strings.ToLower on the strings the model passes in.
ToLower(s) ==
  CASE s = "H264" -> "h264"
    [] s = "HEVC" -> "hevc"
    [] s = "H265" -> "h265"
    [] s = "High" -> "high"
    [] s = "HIGH" -> "high"
    [] s = "MKV" -> "mkv"
    [] s = "Matroska" -> "matroska"
    [] s = "VIDEO" -> "video"
    [] OTHER -> s

\* Mutant: level 4.1 is reported too.
CompatibilityFindingsInclusive(codec, profile, level, container) ==
  (IF ToLower(codec) = "h264" /\ ToLower(profile) = "high" /\ level >= 41
   THEN << Problem("Warning", "Compatibility", "H264_COMPATIBILITY",
                   << level \div 10, level % 10 >>, NoTimestamp) >>
   ELSE <<>>)
  \o (IF ToLower(codec) = "hevc" \/ ToLower(codec) = "h265"
      THEN << Problem("Info", "Compatibility", "HEVC_SUPPORT",
                      <<>>, NoTimestamp) >>
      ELSE <<>>)
  \o (IF ToLower(container) = "mkv" \/ ToLower(container) = "matroska"
      THEN << Problem("Info", "Compatibility", "CONTAINER_COMPATIBILITY",
                      <<>>, NoTimestamp) >>
      ELSE <<>>)

\* Mutant: the container is looked at only when the codec is not HEVC.
CompatibilityFindingsContainerUnlessHevc(codec, profile, level, container) ==
  (IF ToLower(codec) = "h264" /\ ToLower(profile) = "high" /\ level > 41
   THEN << Problem("Warning", "Compatibility", "H264_COMPATIBILITY",
                   << level \div 10, level % 10 >>, NoTimestamp) >>
   ELSE <<>>)
  \o (IF ToLower(codec) = "hevc" \/ ToLower(codec) = "h265"
      THEN << Problem("Info", "Compatibility", "HEVC_SUPPORT",
                      <<>>, NoTimestamp) >>
      ELSE IF ToLower(container) = "mkv" \/ ToLower(container) = "matroska"
      THEN << Problem("Info", "Compatibility", "CONTAINER_COMPATIBILITY",
                      <<>>, NoTimestamp) >>
      ELSE <<>>)

CompatibilityFindings(codec, profile, level, container) ==
  (IF ToLower(codec) = "h264" /\ ToLower(profile) = "high" /\ level > 41
   THEN << Problem("Warning", "Compatibility", "H264_COMPATIBILITY",
                   << level \div 10, level % 10 >>, NoTimestamp) >>
   ELSE <<>>)
  \o (IF ToLower(codec) = "hevc" \/ ToLower(codec) = "h265"
      THEN << Problem("Info", "Compatibility", "HEVC_SUPPORT",
                      <<>>, NoTimestamp) >>
      ELSE <<>>)
  \o (IF ToLower(container) = "mkv" \/ ToLower(container) = "matroska"
      THEN << Problem("Info", "Compatibility", "CONTAINER_COMPATIBILITY",
                      <<>>, NoTimestamp) >>
      ELSE <<>>)

\* ------------------------------------------ GenerateBitrateTimeline parts
\* bitrate = windowBytes * 8 / windowSize, windowSize in seconds being
\* windowSize ticks / Second.
TimelinePoint(currentWindow, windowBytes, windowSize) ==
  BitratePoint(currentWindow, windowBytes * 8 * Second, windowSize)

RECURSIVE TimelineLoopNoFinal(_, _, _, _, _, _)
\* Mutant: the window left after the last packet gets no point.
TimelineLoopNoFinal(packets, windowSize, i, currentWindow, windowBytes, points) ==
  IF i > Len(packets) THEN points
  ELSE LET packet == packets[i] IN
    IF packet.PTS > currentWindow + windowSize
    THEN TimelineLoopNoFinal(packets, windowSize, i + 1,
                             currentWindow + windowSize, packet.Size,
                             IF windowBytes > 0
                             THEN Append(points, TimelinePoint(currentWindow,
                                                   windowBytes, windowSize))
                             ELSE points)
    ELSE TimelineLoopNoFinal(packets, windowSize, i + 1, currentWindow,
                             windowBytes + packet.Size, points)

RECURSIVE TimelineLoopLosingRollover(_, _, _, _, _, _)
\* Mutant: the packet that closes a window is not added to the next one.
TimelineLoopLosingRollover(packets, w, i, currentWindow, windowBytes, points) ==
  IF i > Len(packets)
  THEN IF windowBytes > 0
       THEN Append(points, TimelinePoint(currentWindow, windowBytes, w))
       ELSE points
  ELSE LET packet == packets[i] IN
    IF packet.PTS > currentWindow + w
    THEN TimelineLoopLosingRollover(packets, w, i + 1,
                                    currentWindow + w, 0,
                                    IF windowBytes > 0
                                    THEN Append(points,
                                                TimelinePoint(currentWindow,
                                                              windowBytes,
                                                              w))
                                    ELSE points)
    ELSE TimelineLoopLosingRollover(packets, w, i + 1, currentWindow,
                                    windowBytes + packet.Size, points)

RECURSIVE TimelineLoop(_, _, _, _, _, _)
\* As WindowLoop, except that a closing window advances currentWindow by one
\* windowSize, and that the bytes left after the last packet are a point.
TimelineLoop(packets, windowSize, i, currentWindow, windowBytes, points) ==
  IF i > Len(packets)
  THEN IF windowBytes > 0
       THEN Append(points, TimelinePoint(currentWindow, windowBytes, windowSize))
       ELSE points
  ELSE LET packet == packets[i] IN
    IF packet.PTS > currentWindow + windowSize
    THEN TimelineLoop(packets, windowSize, i + 1,
                      currentWindow + windowSize, packet.Size,
                      IF windowBytes > 0
                      THEN Append(points, TimelinePoint(currentWindow,
                                                        windowBytes, windowSize))
                      ELSE points)
    ELSE TimelineLoop(packets, windowSize, i + 1, currentWindow,
                      windowBytes + packet.Size, points)

\* The nil result is the empty sequence.
BitrateTimeline(packets, windowSize) ==
  IF Len(packets) = 0 \/ windowSize <= 0 THEN <<>>
  ELSE TimelineLoop(packets, windowSize, 1, 0, 0, <<>>)

\* ---------------------------------------------------------------- inputs
SeqsOver(S, n) == UNION { [1..k -> S] : k \in 0..n }

\* Arbitrary short packet sequences: any order of PTS, sizes from 0.
ArbitraryPackets ==
  SeqsOver({ PacketInfo(p, s) : p \in 0..MaxPTS, s \in 0..MaxSize }, MaxLen)

\* Constant size, constant PTS spacing.
UniformPackets ==
  { [i \in 1..n |-> PacketInfo(start + (i - 1) * spacing, size)] :
      start \in 0..MaxStart, spacing \in 0..MaxSpacing,
      size \in 1..(MaxSize + 1), n \in 2..MaxUniformLen }

\* One packet every two seconds, so that every packet opens a window of its
\* own; sizes 1 or BigSize.
SparseStep == 2 * Second

SparsePackets ==
  UNION { { [i \in 1..n |-> PacketInfo((i - 1) * SparseStep, sz[i])] :
              sz \in [1..n -> {1, BigSize}] } : n \in 2..MaxSparseLen }

\* Window bitrates in the ratio 1, 1, 1, 1, 10 (one size unit being the
\* 125000 bytes of a 1 Mbps window), and a sixth packet that closes the
\* fifth window.
SpikeExample ==
  [i \in 1..6 |-> PacketInfo((i - 1) * SparseStep, << 1, 1, 1, 1, 10, 1 >>[i])]

PacketInputs ==
  ArbitraryPackets \cup UniformPackets \cup SparsePackets \cup { SpikeExample }

\* Arbitrary short frame sequences for the timestamp checks.
ArbitraryFrames ==
  SeqsOver({ FrameInfo(FALSE, p, d) : p \in 0..MaxPTS, d \in 0..MaxDTS }, MaxLen)

\* Frames five seconds apart or more, key-frames or not, DTS absent.
KeyStep == LargeKeyInterval \div 2

KeyFrames ==
  SeqsOver({ FrameInfo(k, n * KeyStep, 0) : k \in BOOLEAN, n \in 0..MaxKeySteps },
           MaxKeyLen)

\* PTS 0, 1, 2, 1.5, 3 seconds, DTS absent.
BackstepFrames ==
  << FrameInfo(FALSE, 0, 0), FrameInfo(FALSE, Second, 0),
     FrameInfo(FALSE, 2 * Second, 0), FrameInfo(FALSE, (3 * Second) \div 2, 0),
     FrameInfo(FALSE, 3 * Second, 0) >>

FrameInputs == ArbitraryFrames \cup KeyFrames \cup { BackstepFrames }

WindowSizes == (-1)..MaxWindow

Codecs == { "h264", "H264", "hevc", "HEVC", "h265", "vp9" }
Profiles == { "high", "High", "main", "" }
Levels == { 0, 31, 41, 42, 50 }
Containers == { "mp4", "mkv", "MKV", "matroska", "Matroska" }

NoCompat == [codec |-> "", profile |-> "", level |-> 0, container |-> ""]

\* ----------------------------------------------------------------- state
VARIABLES
  problems,    \* Detector.problems
  before,      \* Detector.problems as it was when the last operation began
  op,          \* the last operation
  packets,     \* its packets argument
  frames,      \* its frames argument
  compat,      \* its codec, profile, level, container arguments
  windowSize,  \* its windowSize argument (ticks)
  timeline,    \* the last result of GenerateBitrateTimeline
  returned,    \* the last result of GetProblems
  history,     \* the analyzer calls made on the Detector, each with the
               \* findings it appended, in call order
  run,         \* the options, probe data and outcome of the last
               \* AnalyzeWithDetails
  export,      \* the flags of the last runExport and the files it wrote
  viz          \* the frames and the result of the last
               \* generateFrameVisualization

vars == << problems, before, op, packets, frames, compat, windowSize,
           timeline, returned, history, run, export, viz >>

NoOptions ==
  [AnalyzePackets |-> FALSE, AnalyzeFrames |-> FALSE, MaxPackets |-> 0,
   MaxFrames |-> 0, ShowFormat |-> FALSE, ShowVideo |-> FALSE]

NoProbe ==
  [err |-> FALSE, hasFormat |-> FALSE, hasVideo |-> FALSE, video |-> NoCompat,
   packetsErr |-> FALSE, packets |-> <<>>, framesErr |-> FALSE, frames |-> <<>>]

NoRun == [options |-> NoOptions, probe |-> NoProbe, outcome |-> "none"]

NoFlags ==
  [exportPackets |-> FALSE, exportFrames |-> FALSE, exportProblems |-> FALSE,
   exportBitrate |-> FALSE, exportAll |-> FALSE, maxPackets |-> 0,
   maxFrames |-> 0]

NoExport == [flags |-> NoFlags, files |-> {}]

FrameData(mediaType, keyFrame, pts, size, pictType) ==
  [MediaType |-> mediaType, KeyFrame |-> keyFrame, PTS |-> pts, Size |-> size,
   PictType |-> pictType]

GOPInfo(startTime, endTime, frameCount, iFrames, pFrames, bFrames) ==
  [StartTime |-> startTime, EndTime |-> endTime, FrameCount |-> frameCount,
   IFrames |-> iFrames, PFrames |-> pFrames, BFrames |-> bFrames]

FrameTimelineEntry(frame) ==
  [Time |-> frame.PTS, FrameType |-> frame.PictType, Size |-> frame.Size,
   KeyFrame |-> frame.KeyFrame]

PictTypes == { "I", "P", "B", "" }

\* The FrameTypes map as a function: 0 for a type that is no key of the map.
NoFrameTypes == [t \in PictTypes |-> 0]

FrameVisualization(totalFrames, duration, frameTypes, gops, entries) ==
  [TotalFrames |-> totalFrames, Duration |-> duration, FrameTypes |-> frameTypes,
   GOPStructure |-> gops, Timeline |-> entries]

NoLoop ==
  [videoFrames |-> <<>>, i |-> 0, currentGOP |-> GOPInfo(0, 0, 0, 0, 0, 0),
   FrameTypes |-> NoFrameTypes, GOPStructure |-> <<>>, Timeline |-> <<>>]

NoResult == FrameVisualization(0, 0, NoFrameTypes, <<>>, <<>>)

\* pc: "none" before any call, "nil" when nil was returned, "done" when
\* result is the value returned.
NoViz == [frames |-> <<>>, pc |-> "none", result |-> NoResult]

\* The operations of the detector and of the analyzer write no file and
\* build no frame visualization.
NoCommand ==
  /\ export' = NoExport
  /\ viz' = NoViz

NoArgs ==
  /\ packets' = <<>>
  /\ frames' = <<>>
  /\ compat' = NoCompat
  /\ windowSize' = 0

\* detector.New(): an empty collection.
New ==
  /\ problems' = <<>>
  /\ before' = <<>>
  /\ op' = "New"
  /\ NoArgs
  /\ timeline' = <<>>
  /\ returned' = <<>>
  /\ history' = <<>>
  /\ run' = NoRun
  /\ NoCommand

Init ==
  /\ problems = <<>>
  /\ before = <<>>
  /\ op = "New"
  /\ packets = <<>>
  /\ frames = <<>>
  /\ compat = NoCompat
  /\ windowSize = 0
  /\ timeline = <<>>
  /\ returned = <<>>
  /\ history = <<>>
  /\ run = NoRun
  /\ export = NoExport
  /\ viz = NoViz

\* Mutant: new findings go in front of the collection.
AddProblemsPrepend(found) ==
  /\ before' = problems
  /\ problems' = found \o problems

\* Mutant: a finding equal to one already collected is dropped.
AddProblemsDistinct(found) ==
  /\ before' = problems
  /\ problems' = problems \o SelectSeq(found,
                     LAMBDA f : \A j \in DOMAIN problems : problems[j] # f)

\* addProblem for each finding of a call, in the order produced.
AddProblems(found) ==
  /\ before' = problems
  /\ problems' = problems \o found

\* A call as history keeps it.
Call(o, pk, fr, c, block) ==
  [op |-> o, packets |-> pk, frames |-> fr, compat |-> c, block |-> block]

\* The call just made and what it added to the collection go into history.
Logged ==
  /\ history' = Append(history,
                       Call(op', packets', frames', compat',
                            SubSeq(problems', Len(problems) + 1, Len(problems'))))
  /\ run' = NoRun
  /\ NoCommand

DetectBitrateVariations(pk) ==
  /\ AddProblems(BitrateFindings(pk))
  /\ op' = "DetectBitrateVariations"
  /\ packets' = pk
  /\ frames' = <<>> /\ compat' = NoCompat /\ windowSize' = 0
  /\ UNCHANGED << timeline, returned >>
  /\ Logged

DetectPacketLoss(pk) ==
  /\ AddProblems(PacketLossFindings(pk))
  /\ op' = "DetectPacketLoss"
  /\ packets' = pk
  /\ frames' = <<>> /\ compat' = NoCompat /\ windowSize' = 0
  /\ UNCHANGED << timeline, returned >>
  /\ Logged

DetectKeyframeIssues(fr) ==
  /\ AddProblems(KeyframeFindings(fr))
  /\ op' = "DetectKeyframeIssues"
  /\ frames' = fr
  /\ packets' = <<>> /\ compat' = NoCompat /\ windowSize' = 0
  /\ UNCHANGED << timeline, returned >>
  /\ Logged

DetectTimestampIssues(fr) ==
  /\ AddProblems(TimestampFindings(fr))
  /\ op' = "DetectTimestampIssues"
  /\ frames' = fr
  /\ packets' = <<>> /\ compat' = NoCompat /\ windowSize' = 0
  /\ UNCHANGED << timeline, returned >>
  /\ Logged

AnalyzeCompatibility(codec, profile, level, container) ==
  /\ AddProblems(CompatibilityFindings(codec, profile, level, container))
  /\ op' = "AnalyzeCompatibility"
  /\ compat' = [codec |-> codec, profile |-> profile, level |-> level,
                container |-> container]
  /\ packets' = <<>> /\ frames' = <<>> /\ windowSize' = 0
  /\ UNCHANGED << timeline, returned >>
  /\ Logged

\* Mutant: retrieval hands the findings over and empties the collection.
GetProblemsDraining ==
  /\ returned' = problems
  /\ problems' = <<>>
  /\ before' = problems
  /\ op' = "GetProblems"
  /\ NoArgs
  /\ UNCHANGED << timeline, history, run, export, viz >>

GetProblems ==
  /\ returned' = problems
  /\ before' = problems
  /\ op' = "GetProblems"
  /\ NoArgs
  /\ UNCHANGED << problems, timeline, history, run, export, viz >>

GenerateBitrateTimeline(pk, w) ==
  /\ timeline' = BitrateTimeline(pk, w)
  /\ before' = problems
  /\ op' = "GenerateBitrateTimeline"
  /\ packets' = pk
  /\ windowSize' = w
  /\ frames' = <<>> /\ compat' = NoCompat
  /\ UNCHANGED << problems, returned, history, run, export, viz >>

\* Spec applies each operation to a newly constructed Detector.
Fresh == op = "New"

Next ==
  \/ New
  \/ Fresh /\ \E pk \in PacketInputs : DetectBitrateVariations(pk)
  \/ Fresh /\ \E pk \in PacketInputs : DetectPacketLoss(pk)
  \/ Fresh /\ \E fr \in KeyFrames : DetectKeyframeIssues(fr)
  \/ Fresh /\ \E fr \in FrameInputs : DetectTimestampIssues(fr)
  \/ Fresh /\ \E c \in Codecs, p \in Profiles, l \in Levels, k \in Containers :
        AnalyzeCompatibility(c, p, l, k)
  \/ GetProblems
  \/ Fresh /\ \E pk \in PacketInputs, w \in WindowSizes :
        GenerateBitrateTimeline(pk, w)

Spec == Init /\ [][Next]_vars

\* ------------------------------------------------- AnalyzeWithDetails
\* The loop that copies probed packets or frames and breaks at index i when
\* the limit is positive and i >= limit.
\* Mutant: the loop breaks one element late.
TakeOneMore(s, limit) ==
  IF limit > 0 /\ Len(s) > limit + 1 THEN SubSeq(s, 1, limit + 1) ELSE s

Take(s, limit) ==
  IF limit > 0 /\ Len(s) > limit THEN SubSeq(s, 1, limit) ELSE s

\* Analyzer.Analyze: which parts of MediaInfo are set.
MediaInfo(options, probe) ==
  [Format |-> options.ShowFormat /\ probe.hasFormat,
   VideoStream |-> options.ShowVideo /\ probe.hasVideo]

KeptPackets(options, probe) ==
  IF options.AnalyzePackets /\ ~probe.packetsErr
  THEN Take(probe.packets, options.MaxPackets) ELSE <<>>

KeptFrames(options, probe) ==
  IF options.AnalyzeFrames /\ ~probe.framesErr
  THEN Take(probe.frames, options.MaxFrames) ELSE <<>>

PacketCalls(pk) ==
  IF Len(pk) > 0
  THEN << Call("DetectBitrateVariations", pk, <<>>, NoCompat, BitrateFindings(pk)),
          Call("DetectPacketLoss", pk, <<>>, NoCompat, PacketLossFindings(pk)) >>
  ELSE <<>>

FrameCalls(fr) ==
  IF Len(fr) > 0
  THEN << Call("DetectKeyframeIssues", <<>>, fr, NoCompat, KeyframeFindings(fr)),
          Call("DetectTimestampIssues", <<>>, fr, NoCompat, TimestampFindings(fr)) >>
  ELSE <<>>

\* Reading mediaInfo.Format.FormatName of an absent Format is a nil
\* dereference: the call is not made and the function panics.
CompatCalls(media, video) ==
  IF media.VideoStream /\ media.Format
  THEN << Call("AnalyzeCompatibility", <<>>, <<>>, video,
               CompatibilityFindings(video.codec, video.profile, video.level,
                                     video.container)) >>
  ELSE <<>>

\* Mutant: the frame analyzers run before the packet analyzers.
AwdCallsFramesFirst(options, probe) ==
  FrameCalls(KeptFrames(options, probe))
    \o PacketCalls(KeptPackets(options, probe))
    \o CompatCalls(MediaInfo(options, probe), probe.video)

\* The analyzer calls AnalyzeWithDetails makes on its Detector, in order.
AwdCalls(options, probe) ==
  PacketCalls(KeptPackets(options, probe))
    \o FrameCalls(KeptFrames(options, probe))
    \o CompatCalls(MediaInfo(options, probe), probe.video)

RECURSIVE Blocks(_)
\* The collection after the calls: every block appended in turn.
Blocks(calls) ==
  IF calls = <<>> THEN <<>> ELSE Head(calls).block \o Blocks(Tail(calls))

AwdOutcome(options, probe) ==
  IF probe.err THEN "error"
  ELSE IF MediaInfo(options, probe).VideoStream /\ ~MediaInfo(options, probe).Format
       THEN "panic"
       ELSE "ok"

\* What AnalyzeWithDetails does to its Detector and what it returns.
AwdEffects(options, probe) ==
  LET calls == IF probe.err THEN <<>> ELSE AwdCalls(options, probe)
      pk == IF probe.err THEN <<>> ELSE KeptPackets(options, probe)
      fr == IF probe.err THEN <<>> ELSE KeptFrames(options, probe)
      outcome == AwdOutcome(options, probe)
  IN /\ before' = <<>>
     /\ problems' = Blocks(calls)
     /\ history' = calls
     /\ packets' = pk
     /\ frames' = fr
     /\ compat' = IF outcome = "ok" /\ MediaInfo(options, probe).VideoStream
                  THEN probe.video ELSE NoCompat
     /\ windowSize' = IF Len(pk) > 0 THEN Second ELSE 0
     /\ timeline' = IF Len(pk) > 0 THEN BitrateTimeline(pk, Second) ELSE <<>>
     /\ returned' = IF outcome = "ok" THEN Blocks(calls) ELSE <<>>
     /\ run' = [options |-> options, probe |-> probe, outcome |-> outcome]

AnalyzeWithDetails(options, probe) ==
  /\ op' = "AnalyzeWithDetails"
  /\ AwdEffects(options, probe)
  /\ NoCommand

\* --------------------------------------- inputs of the sequences of calls
SeqPackets ==
  SeqsOver({ PacketInfo(p, 1) : p \in { 0, SparseStep } }, MaxSeqLen)
    \cup { SpikeExample }

\* Two frames with DTS 1.0 then 0.5, both PTS 0.
DtsBackstepFrames ==
  << FrameInfo(FALSE, 0, Second), FrameInfo(FALSE, 0, Second \div 2) >>

SeqFrames ==
  SeqsOver({ FrameInfo(TRUE, 0, 0), FrameInfo(FALSE, 3 * KeyStep, 0) },
           MaxSeqLen)
    \cup { DtsBackstepFrames }

SeqCompat ==
  { [codec |-> "h264", profile |-> "High", level |-> 50, container |-> "mp4"],
    [codec |-> "HEVC", profile |-> "main", level |-> 0, container |-> "MKV"],
    [codec |-> "vp9", profile |-> "", level |-> 31, container |-> "mp4"] }

AwdPackets ==
  { <<>>, SpikeExample, << PacketInfo(0, 1), PacketInfo(SparseStep, 1) >> }

AwdFrames ==
  { <<>>, BackstepFrames, << FrameInfo(FALSE, 0, 0) >>,
    << FrameInfo(TRUE, 0, 0), FrameInfo(TRUE, 3 * KeyStep, 0) >> }

OptionSets ==
  [AnalyzePackets : BOOLEAN, AnalyzeFrames : BOOLEAN, MaxPackets : (-1)..MaxLimit,
   MaxFrames : (-1)..MaxLimit, ShowFormat : BOOLEAN, ShowVideo : BOOLEAN]

Probes ==
  [err : BOOLEAN, hasFormat : BOOLEAN, hasVideo : BOOLEAN, video : SeqCompat,
   packetsErr : BOOLEAN, packets : AwdPackets, framesErr : BOOLEAN,
   frames : AwdFrames]

\* SpecSeq makes up to MaxCalls analyzer calls, in any order, on one
\* Detector, or runs AnalyzeWithDetails, which makes its own Detector.
OnDetector == op # "AnalyzeWithDetails"

MoreCalls == OnDetector /\ Len(history) < MaxCalls

NextSeq ==
  \/ MoreCalls /\ \E pk \in SeqPackets : DetectBitrateVariations(pk)
  \/ MoreCalls /\ \E pk \in SeqPackets : DetectPacketLoss(pk)
  \/ MoreCalls /\ \E fr \in SeqFrames : DetectKeyframeIssues(fr)
  \/ MoreCalls /\ \E fr \in SeqFrames : DetectTimestampIssues(fr)
  \/ MoreCalls /\ \E c \in SeqCompat :
        AnalyzeCompatibility(c.codec, c.profile, c.level, c.container)
  \/ OnDetector /\ GetProblems
  \/ Fresh /\ \E o \in OptionSets, p \in Probes : AnalyzeWithDetails(o, p)

SpecSeq == Init /\ [][NextSeq]_vars

\* ---------------------------------------------------------- runExport
\* The flags as runExport leaves them: --export-all sets the other four.
EffectiveFlags(flags) ==
  IF flags.exportAll
  THEN [flags EXCEPT !.exportPackets = TRUE, !.exportFrames = TRUE,
                     !.exportProblems = TRUE, !.exportBitrate = TRUE]
  ELSE flags

ExportOptions(flags) ==
  [AnalyzePackets |-> flags.exportPackets, AnalyzeFrames |-> flags.exportFrames,
   MaxPackets |-> flags.maxPackets, MaxFrames |-> flags.maxFrames,
   ShowFormat |-> TRUE, ShowVideo |-> TRUE]

\* The files runExport creates from the result of AnalyzeWithDetails; no
\* file when the analysis failed.  Every write is taken to succeed.
ExportFiles(flags, outcome, result) ==
  IF outcome # "ok" THEN {}
  ELSE { "media_info.json", "summary.json" }
       \cup (IF flags.exportProblems /\ Len(result.Problems) > 0
             THEN { "problems.json" } ELSE {})
       \cup (IF flags.exportPackets /\ Len(result.Packets) > 0
             THEN { "packets.json" } ELSE {})
       \cup (IF flags.exportFrames /\ Len(result.Frames) > 0
             THEN { "frames.json", "frame_visualization.json" } ELSE {})
       \cup (IF flags.exportBitrate /\ Len(result.BitrateTimeline) > 0
             THEN { "bitrate_timeline.json" } ELSE {})

\* runExport; only the names of the files written are kept, and
\* generateFrameVisualization is an operation of its own below.
RunExport(flags, probe) ==
  LET set == EffectiveFlags(flags)
      options == ExportOptions(set)
  IN /\ op' = "runExport"
     /\ AwdEffects(options, probe)
     /\ export' = [flags |-> set,
                   files |-> ExportFiles(set, AwdOutcome(options, probe),
                                         [Problems |-> returned',
                                          Packets |-> packets',
                                          Frames |-> frames',
                                          BitrateTimeline |-> timeline'])]
     /\ viz' = NoViz

\* ----------------------------------------- generateFrameVisualization
TimelineLimit == 1000

VideoFrames(fr) == SelectSeq(fr, LAMBDA frame : ToLower(frame.MediaType) = "video")

\* currentGOP after the switch on the picture type.
CountPictType(currentGOP, frame) ==
  CASE frame.PictType = "I" -> [currentGOP EXCEPT !.IFrames = @ + 1]
    [] frame.PictType = "P" -> [currentGOP EXCEPT !.PFrames = @ + 1]
    [] frame.PictType = "B" -> [currentGOP EXCEPT !.BFrames = @ + 1]
    [] OTHER -> currentGOP

SampleRate(videoFrames) ==
  IF Len(videoFrames) \div TimelineLimit < 1 THEN 1
  ELSE Len(videoFrames) \div TimelineLimit

\* One iteration of the loop over videoFrames, on the loop's variables; the
\* source's index is loop.i - 1.
VizBody(loop) ==
  LET videoFrames == loop.videoFrames
      i == loop.i
      frame == videoFrames[i]
      counted == CountPictType(loop.currentGOP, frame)
  IN [loop EXCEPT
        !.i = i + 1,
        !.FrameTypes = IF frame.PictType # ""
                       THEN [@ EXCEPT ![frame.PictType] = @ + 1]
                       ELSE @,
        !.Timeline = IF (i - 1) % SampleRate(videoFrames) = 0
                     THEN Append(@, FrameTimelineEntry(frame))
                     ELSE @,
        !.GOPStructure =
          IF frame.KeyFrame /\ i - 1 > 0
          THEN Append(@, [counted EXCEPT
                            !.EndTime = videoFrames[i - 1].PTS,
                            !.FrameCount = counted.IFrames + counted.PFrames
                                             + counted.BFrames])
          ELSE @,
        !.currentGOP =
          IF frame.KeyFrame /\ i - 1 > 0
          THEN GOPInfo(frame.PTS, 0, 0, 1, 0, 0)
          ELSE [counted EXCEPT !.FrameCount = @ + 1]]

RECURSIVE VizLoop(_, _, _)
\* The iterations lo .. hi of the loop, in order, on the loop's variables.
\* They are evaluated by halves, the first half before the second (its
\* index is read first), which keeps the evaluation shallow on long inputs.
VizLoop(loop, lo, hi) ==
  IF lo > hi THEN loop
  ELSE IF lo = hi THEN VizBody(loop)
  ELSE LET mid == (lo + hi) \div 2
           first == VizLoop(loop, lo, mid)
       IN IF first.i = mid + 1 THEN VizLoop(first, mid + 1, hi) ELSE first

\* After the loop: the final GOP, the duration, and the value returned.
VizResult(fr, loop) ==
  LET videoFrames == loop.videoFrames
      last == videoFrames[Len(videoFrames)].PTS
  IN FrameVisualization(
       Len(fr), last, loop.FrameTypes,
       IF loop.currentGOP.FrameCount > 0
       THEN Append(loop.GOPStructure, [loop.currentGOP EXCEPT !.EndTime = last])
       ELSE loop.GOPStructure,
       loop.Timeline)

\* nil for no frame at all, an empty visualization for no video frame.
GenerateFrameVisualization(fr) ==
  LET videoFrames == VideoFrames(fr) IN
  /\ viz' = IF Len(fr) = 0
            THEN [frames |-> fr, pc |-> "nil", result |-> NoResult]
            ELSE IF Len(videoFrames) = 0
            THEN [frames |-> fr, pc |-> "done",
                  result |-> FrameVisualization(Len(fr), 0, NoFrameTypes,
                                                <<>>, <<>>)]
            ELSE [frames |-> fr, pc |-> "done",
                  result |->
                    VizResult(fr,
                      VizLoop([NoLoop EXCEPT
                                 !.videoFrames = videoFrames, !.i = 1,
                                 !.currentGOP = GOPInfo(videoFrames[1].PTS,
                                                        0, 0, 0, 0, 0)],
                              1, Len(videoFrames)))]
  /\ op' = "generateFrameVisualization"
  /\ before' = problems
  /\ NoArgs
  /\ export' = NoExport
  /\ UNCHANGED << problems, timeline, returned, history, run >>

\* ------------------------------------------ inputs of the export command
Flags ==
  [exportPackets : BOOLEAN, exportFrames : BOOLEAN, exportProblems : BOOLEAN,
   exportBitrate : BOOLEAN, exportAll : BOOLEAN, maxPackets : 0..MaxLimit,
   maxFrames : 0..MaxLimit]

\* The kinds of frame of the short lists: video frames of every picture
\* type, key or not, in either spelling of the media type, and audio frames.
FrameKinds ==
  [m : { "video" }, k : BOOLEAN, t : { "I", "P" }]
    \cup { [m |-> "video", k |-> FALSE, t |-> "B"],
           [m |-> "video", k |-> TRUE, t |-> ""],
           [m |-> "VIDEO", k |-> TRUE, t |-> "I"],
           [m |-> "audio", k |-> TRUE, t |-> ""] }

\* Short frame lists of every kind, one frame per second.
ShortFrames ==
  UNION { { [i \in 1..n |-> FrameData(c[i].m, c[i].k, (i - 1) * Second, 1, c[i].t)] :
              c \in [1..n -> FrameKinds] } : n \in 0..MaxVizLen }

\* n video frames: a key-frame of type I, then frames of type P.
LongFrames(n) ==
  [i \in 1..n |-> FrameData("video", i = 1, (i - 1) * Second, 1,
                            IF i = 1 THEN "I" ELSE "P")]

LongLengths ==
  { TimelineLimit - 1, TimelineLimit, TimelineLimit + 1, 2 * TimelineLimit - 1,
    2 * TimelineLimit, 2 * TimelineLimit + 1 }

VizInputs == ShortFrames \cup { LongFrames(n) : n \in LongLengths }

\* SpecExport runs the export command, or builds a frame visualization.
NextExport ==
  \/ Fresh /\ \E f \in Flags, p \in Probes : RunExport(f, p)
  \/ Fresh /\ \E fr \in VizInputs : GenerateFrameVisualization(fr)

SpecExport == Init /\ [][NextExport]_vars

\* ================================================================ claims
\* The findings the last operation appended.
Appended == SubSeq(problems, Len(before) + 1, Len(problems))

WithCode(s, code) == SelectSeq(s, LAMBDA f : f.Code = code)

IsUniform(pk) ==
  /\ Len(pk) >= 2
  /\ pk[1].PTS >= 0
  /\ \A i \in 2..Len(pk) :
       /\ pk[i].Size = pk[1].Size
       /\ pk[i].PTS - pk[i - 1].PTS = pk[2].PTS - pk[1].PTS

\* C1: for packets of constant size and constant PTS spacing (any start PTS
\* >= 0, any length >= 2) DetectBitrateVariations appends no
\* BITRATE_HIGH_VARIANCE and no BITRATE_SPIKE.
C1_UniformNoBitrateFinding ==
  (op = "DetectBitrateVariations" /\ IsUniform(packets))
    => /\ WithCode(Appended, "BITRATE_HIGH_VARIANCE") = <<>>
       /\ WithCode(Appended, "BITRATE_SPIKE") = <<>>

\* The window bitrates the detector computes statistics over: none when the
\* call returns before its loop.
Windows == IF Len(packets) < 2 THEN <<>> ELSE BitratePoints(packets)

SumOver(f, S) ==
  LET RECURSIVE Go(_)
      Go(T) == IF T = {} THEN 0
               ELSE LET x == CHOOSE y \in T : TRUE IN f[x] + Go(T \ {x})
  IN Go(S)

\* (population stdDev) / mean > 0.3 for n values b with sum T and sum of
\* squares Q: variance = Q/n - (T/n)^2, so the condition is
\* Q/n - T^2/n^2 > 0.09 * T^2/n^2, i.e. 100 * n * Q > 109 * T^2.
PopulationCVAboveLimit(b) ==
  LET n == Len(b)
      T == SumOver(b, DOMAIN b)
      Q == SumOver([i \in DOMAIN b |-> b[i] * b[i]], DOMAIN b)
  IN n > 0 /\ T > 0 /\ 100 * n * Q > 109 * T * T

\* C2: DetectBitrateVariations appends exactly one BITRATE_HIGH_VARIANCE
\* Warning when the population standard deviation of the window bitrates
\* divided by their mean exceeds 0.3, and none otherwise.
C2_HighVarianceIffCV ==
  op = "DetectBitrateVariations"
    => LET hv == WithCode(Appended, "BITRATE_HIGH_VARIANCE") IN
       /\ Len(hv) = (IF PopulationCVAboveLimit(Windows) THEN 1 ELSE 0)
       /\ \A i \in DOMAIN hv : hv[i].Severity = "Warning"

C2_Witness ==
  /\ op = "DetectBitrateVariations"
  /\ Len(Windows) >= 3
  /\ PopulationCVAboveLimit(Windows)
  /\ Len(WithCode(problems, "BITRATE_HIGH_VARIANCE")) = 1

\* Indices of the windows whose bitrate exceeds 2.5 x the mean.
SpikingWindows(b) ==
  { i \in DOMAIN b : 10 * Len(b) * b[i] > 25 * SumOver(b, DOMAIN b) }

\* C3: DetectBitrateVariations appends exactly one BITRATE_SPIKE Warning for
\* every window whose bitrate exceeds 2.5 x the mean window bitrate, in
\* window order, with timestamp = windowIndex x 1.0, and none for any other
\* window; the windows 1, 1, 1, 1, 10 give exactly one BITRATE_SPIKE, for
\* the fifth window, and exactly one BITRATE_HIGH_VARIANCE.
C3_SpikePerWindow ==
  op = "DetectBitrateVariations"
    => LET sp == WithCode(Appended, "BITRATE_SPIKE") IN
       /\ Len(sp) = Cardinality(SpikingWindows(Windows))
       /\ { sp[j].Timestamp : j \in DOMAIN sp }
            = { (i - 1) * Second : i \in SpikingWindows(Windows) }
       /\ \A j \in DOMAIN sp :
            /\ sp[j].Severity = "Warning"
            /\ \A k \in DOMAIN sp : j < k => sp[j].Timestamp < sp[k].Timestamp
       /\ packets = SpikeExample
            => /\ Len(sp) = 1
               /\ sp[1].Timestamp = 4 * Second
               /\ Len(WithCode(Appended, "BITRATE_HIGH_VARIANCE")) = 1

\* Two windows spike in one call, the second of them not the last window.
C3_Witness ==
  /\ op = "DetectBitrateVariations"
  /\ Cardinality(SpikingWindows(Windows)) = 2
  /\ Len(Windows) \notin SpikingWindows(Windows)
  /\ Len(WithCode(problems, "BITRATE_SPIKE")) = 2

KeyframeCount(fr) == Cardinality({ i \in DOMAIN fr : fr[i].KeyFrame })

NoKeyframes ==
  [Severity |-> "Error", Category |-> "Keyframe", Code |-> "NO_KEYFRAMES",
   Args |-> <<>>, Timestamp |-> 0]

\* C4 as stated: for every frame sequence with 0 or 1 key-frames, the empty
\* sequence included, DetectKeyframeIssues appends exactly one NO_KEYFRAMES
\* Error finding and no other finding.
C4_Original ==
  (op = "DetectKeyframeIssues" /\ KeyframeCount(frames) <= 1)
    => Appended = << NoKeyframes >>

\* C4 as amended: for every non-empty frame sequence with 0 or 1 key-frames
\* DetectKeyframeIssues appends exactly one NO_KEYFRAMES Error finding and
\* no other finding; for the empty sequence it appends nothing.
C4_NoKeyframesWhenNonEmpty ==
  (op = "DetectKeyframeIssues" /\ KeyframeCount(frames) <= 1)
    => Appended = (IF frames = <<>> THEN <<>> ELSE << NoKeyframes >>)

C4_Witness ==
  /\ op = "DetectKeyframeIssues"
  /\ Len(frames) >= 2
  /\ KeyframeCount(frames) = 1
  /\ problems = << NoKeyframes >>

\* The PTS_BEFORE_DTS findings of the frame with 0-based number n.
PtsBeforeDtsAt(n) ==
  SelectSeq(Appended, LAMBDA f : f.Code = "PTS_BEFORE_DTS" /\ f.Args = << n >>)

\* C5: for every frame sequence and every index i, index 0 included, with
\* DTS[i] > PTS[i], DetectTimestampIssues appends exactly one PTS_BEFORE_DTS
\* Error finding for that index, and none for an index with DTS[i] <= PTS[i].
C5_PtsBeforeDtsPerIndex ==
  op = "DetectTimestampIssues"
    => \A i \in DOMAIN frames :
         /\ Len(PtsBeforeDtsAt(i - 1))
              = (IF frames[i].DTS > frames[i].PTS THEN 1 ELSE 0)
         /\ \A j \in DOMAIN PtsBeforeDtsAt(i - 1) :
              PtsBeforeDtsAt(i - 1)[j].Severity = "Error"

NonMonotonicPts(n, ts) ==
  [Severity |-> "Error", Category |-> "Timestamp", Code |-> "NON_MONOTONIC_PTS",
   Args |-> << n >>, Timestamp |-> ts]

LargePtsGapAt(n, ts) ==
  [Severity |-> "Warning", Category |-> "Timestamp", Code |-> "LARGE_PTS_GAP",
   Args |-> << n >>, Timestamp |-> ts]

\* C6 as stated: for frames with PTS 0, 1, 2, 1.5, 3 (DTS absent)
\* DetectTimestampIssues appends a NON_MONOTONIC_PTS finding (timestamp 1.5)
\* for the transition 2 -> 1.5 and no finding of any code for any other
\* transition.
C6_Original ==
  (op = "DetectTimestampIssues" /\ frames = BackstepFrames)
    => Appended = << NonMonotonicPts(3, (3 * Second) \div 2) >>

\* C6 as amended: for those frames DetectTimestampIssues appends one
\* NON_MONOTONIC_PTS finding (timestamp 1.5) for the transition 2 -> 1.5,
\* then one LARGE_PTS_GAP Warning (timestamp 3) for the transition 1.5 -> 3,
\* whose gap of 1.5 exceeds 1.0, and nothing else.
C6_BackstepThenGap ==
  (op = "DetectTimestampIssues" /\ frames = BackstepFrames)
    => Appended = << NonMonotonicPts(3, (3 * Second) \div 2),
                     LargePtsGapAt(4, 3 * Second) >>

C6_Witness ==
  /\ op = "DetectTimestampIssues"
  /\ frames = BackstepFrames
  /\ Len(problems) = 2

\* The j-th smallest element of a finite set of integers.
Nth(S, j) == CHOOSE g \in S : Cardinality({ h \in S : h < g }) = j - 1

RECURSIVE TimelineWindowOf(_, _, _)
\* The number (from 0) of the timeline window that packet k is summed into:
\* window g starts at g * w, and a packet later than the end of the current
\* window moves on to the next one.  Packet 0 stands for "before the loop".
TimelineWindowOf(pk, w, k) ==
  IF k = 0 THEN 0
  ELSE LET g == TimelineWindowOf(pk, w, k - 1)
       IN IF pk[k].PTS > g * w + w THEN g + 1 ELSE g

TimelineWindowBytes(pk, w, g) ==
  SumOver([k \in DOMAIN pk |->
             IF TimelineWindowOf(pk, w, k) = g THEN pk[k].Size ELSE 0],
          DOMAIN pk)

\* The windows that hold bytes, which are the windows that get a point.
TimelinePointWindows(pk, w) ==
  { g \in 0..Len(pk) : TimelineWindowBytes(pk, w, g) > 0 }

\* Every point's bitrate Num/Den is its window's bytes x 8 / windowSize
\* (windowSize being w / Second seconds), one point per window with bytes.
TimelineBitratesMatch ==
  /\ Len(timeline) = Cardinality(TimelinePointWindows(packets, windowSize))
  /\ \A j \in DOMAIN timeline :
       LET g == Nth(TimelinePointWindows(packets, windowSize), j) IN
       /\ timeline[j].Den > 0
       /\ timeline[j].Num * windowSize
            = TimelineWindowBytes(packets, windowSize, g) * 8 * Second
                * timeline[j].Den

\* C7 as stated: GenerateBitrateTimeline returns an empty result when the
\* packet list is empty or windowSize <= 0, and for every non-empty packet
\* list with windowSize > 0 it returns at least one point, each point's
\* bitrate being the total bytes of its window x 8 / windowSize.
C7_Original ==
  op = "GenerateBitrateTimeline"
    => /\ (packets = <<>> \/ windowSize <= 0) => timeline = <<>>
       /\ (packets # <<>> /\ windowSize > 0)
            => Len(timeline) >= 1 /\ TimelineBitratesMatch

HasBytes(pk) ==
  /\ \A k \in DOMAIN pk : pk[k].Size >= 0
  /\ \E k \in DOMAIN pk : pk[k].Size > 0

\* C7 as amended: GenerateBitrateTimeline returns an empty result when the
\* packet list is empty or windowSize <= 0; for every packet list of
\* non-negative sizes with windowSize > 0 it returns one point per window
\* that holds bytes, each point's bitrate being the total bytes of its
\* window x 8 / windowSize: at least one point when some packet has a
\* positive size, and none when every packet has size 0.
C7_PointPerWindowWithBytes ==
  op = "GenerateBitrateTimeline"
    => /\ (packets = <<>> \/ windowSize <= 0) => timeline = <<>>
       /\ (packets # <<>> /\ windowSize > 0)
            => /\ TimelineBitratesMatch
               /\ HasBytes(packets) => Len(timeline) >= 1
               /\ ~HasBytes(packets) => timeline = <<>>

\* Several windows, the last packet in a window of its own.
C7_Witness ==
  /\ op = "GenerateBitrateTimeline"
  /\ windowSize > 0
  /\ HasBytes(packets)
  /\ Len(timeline) >= 3
  /\ \E j \in DOMAIN timeline : timeline[j].Num > 8 * Second

\* C8: GenerateBitrateTimeline with window width 1.0 and
\* DetectBitrateVariations accumulate the same windows: for every packet
\* sequence the detector's window totals equal, in order, those of the
\* timeline's points other than its final window (all of its points when
\* the final window holds no bytes).
C8_SameWindowsAsDetector ==
  (op = "GenerateBitrateTimeline" /\ windowSize = Second)
    => LET bp == BitratePoints(packets)
           tb == [j \in DOMAIN timeline |-> timeline[j].Num \div timeline[j].Den]
       IN \/ bp = tb
          \/ tb # <<>> /\ bp = SubSeq(tb, 1, Len(tb) - 1)

\* C9: every point returned by GenerateBitrateTimeline has Time equal to
\* the start of the window it aggregates: each packet whose size is summed
\* into the point has PTS within [Time, Time + windowSize].
C9_PointTimeCoversPackets ==
  (op = "GenerateBitrateTimeline" /\ windowSize > 0)
    => \A j \in DOMAIN timeline :
         LET g == Nth(TimelinePointWindows(packets, windowSize), j) IN
         \A k \in DOMAIN packets :
           (TimelineWindowOf(packets, windowSize, k) = g /\ packets[k].Size > 0)
             => /\ timeline[j].Time <= packets[k].PTS
                /\ packets[k].PTS <= timeline[j].Time + windowSize

RECURSIVE DetectorAnchor(_, _)
\* The start of the detector's window after packet k: 0 before the loop,
\* and the PTS of the last packet later than its window's start + 1.0.
DetectorAnchor(pk, k) ==
  IF k = 0 THEN 0
  ELSE IF pk[k].PTS > DetectorAnchor(pk, k - 1) + Second
       THEN pk[k].PTS
       ELSE DetectorAnchor(pk, k - 1)

\* The number (from 0) of the detector window that packet k is summed into.
DetectorWindowOf(pk, k) ==
  Cardinality({ m \in 1..k : pk[m].PTS > DetectorAnchor(pk, m - 1) + Second })

\* The closed windows that hold bytes: the i-th of them is the i-th bitrate.
DetectorPointWindows(pk) ==
  { g \in 0..(DetectorWindowOf(pk, Len(pk)) - 1) :
      SumOver([k \in DOMAIN pk |->
                 IF DetectorWindowOf(pk, k) = g THEN pk[k].Size ELSE 0],
              DOMAIN pk) > 0 }

\* The PTS of the packets summed into the i-th bitrate.
PtsOfBitrate(pk, i) ==
  { pk[k].PTS : k \in { m \in DOMAIN pk :
       DetectorWindowOf(pk, m) = Nth(DetectorPointWindows(pk), i) } }

\* C10: every finding whose timestamp is present (non-zero) carries the
\* media time at which its condition was observed: for timestamp-order and
\* packet-loss findings PTS[i] of the second element of the offending pair,
\* and for BITRATE_SPIKE a time within the PTS range of the packets summed
\* into the spiking window.
C10_TimestampIsMediaTime ==
  /\ op = "DetectTimestampIssues"
       => \A n \in DOMAIN Appended :
            Appended[n].Timestamp # 0
              => Appended[n].Timestamp = frames[Appended[n].Args[1] + 1].PTS
  /\ op = "DetectPacketLoss"
       => \A n \in DOMAIN Appended :
            Appended[n].Timestamp # 0
              => \E i \in 2..Len(packets) :
                   /\ packets[i].PTS - packets[i - 1].PTS > PacketLossGap
                   /\ Appended[n].Timestamp = packets[i].PTS
  /\ op = "DetectBitrateVariations"
       => LET sp == WithCode(Appended, "BITRATE_SPIKE") IN
          \A n \in DOMAIN sp :
            sp[n].Timestamp # 0
              => LET pts == PtsOfBitrate(packets, Nth(SpikingWindows(Windows), n))
                 IN /\ \E t \in pts : t <= sp[n].Timestamp
                    /\ \E t \in pts : sp[n].Timestamp <= t

\* ------------------------------------------------------------------ C11
\* C11: every step on a Detector leaves the collection as it was before the
\* step as an unchanged prefix of the collection after it: findings are only
\* appended, never changed, reordered or removed.
C11_AppendOnly ==
  [][/\ Len(problems') >= Len(problems)
     /\ SubSeq(problems', 1, Len(problems)) = problems]_vars

\* Two analyzer calls on one Detector that both appended findings.
C11_Witness ==
  /\ OnDetector
  /\ Len(history) = 2
  /\ history[1].block # <<>>
  /\ history[2].block # <<>>
  /\ history[1].op # history[2].op
  /\ Len(problems) = Len(history[1].block) + Len(history[2].block)

\* ------------------------------------------------------------------ C12
\* What a call yields on its arguments alone.
FindingsOf(call) ==
  CASE call.op = "DetectBitrateVariations" -> BitrateFindings(call.packets)
    [] call.op = "DetectPacketLoss" -> PacketLossFindings(call.packets)
    [] call.op = "DetectKeyframeIssues" -> KeyframeFindings(call.frames)
    [] call.op = "DetectTimestampIssues" -> TimestampFindings(call.frames)
    [] call.op = "AnalyzeCompatibility" ->
         CompatibilityFindings(call.compat.codec, call.compat.profile,
                               call.compat.level, call.compat.container)

RECURSIVE FindingsUpTo(_, _)
\* The findings of the first n calls of h, in call order.
FindingsUpTo(h, n) ==
  IF n = 0 THEN <<>> ELSE FindingsUpTo(h, n - 1) \o FindingsOf(h[n])

CategoryRank(category) ==
  CASE category = "Bitrate" -> 1
    [] category = "PacketLoss" -> 2
    [] category = "Keyframe" -> 3
    [] category = "Timestamp" -> 4
    [] category = "Compatibility" -> 5

Categories(s) == { s[j].Category : j \in DOMAIN s }

\* C12: GetProblems returns the findings of the calls made so far, call by
\* call in call order and within a call in the order produced; what
\* AnalyzeWithDetails returns lists bitrate findings, then packet-loss, then
\* keyframe, then timestamp, then compatibility findings.
C12_CallOrder ==
  /\ op = "GetProblems" => returned = FindingsUpTo(history, Len(history))
  /\ (op = "AnalyzeWithDetails" /\ run.outcome = "ok")
       => /\ returned = FindingsUpTo(history, Len(history))
          /\ \A i, j \in DOMAIN returned :
               i < j => CategoryRank(returned[i].Category)
                          <= CategoryRank(returned[j].Category)

\* AnalyzeWithDetails returned findings of all five categories.
C12_Witness ==
  /\ op = "AnalyzeWithDetails"
  /\ run.outcome = "ok"
  /\ Categories(returned)
       = { "Bitrate", "PacketLoss", "Keyframe", "Timestamp", "Compatibility" }

\* ------------------------------------------------------------------ C13
\* C13: the block of findings a call appended is what the call yields on its
\* arguments alone, whatever the Detector held and whichever calls came
\* before; so equal calls append equal blocks at any position.
C13_Independent ==
  /\ \A i \in DOMAIN history : history[i].block = FindingsOf(history[i])
  /\ \A i, j \in DOMAIN history :
       (/\ history[i].op = history[j].op
        /\ history[i].packets = history[j].packets
        /\ history[i].frames = history[j].frames
        /\ history[i].compat = history[j].compat)
         => history[i].block = history[j].block

\* The same call made twice on one Detector, appending findings both times.
C13_Witness ==
  /\ OnDetector
  /\ Len(history) = 2
  /\ history[1].op = history[2].op
  /\ history[1].packets = history[2].packets
  /\ history[1].frames = history[2].frames
  /\ history[1].compat = history[2].compat
  /\ history[1].block # <<>>
  /\ history[2].block = history[1].block

\* ------------------------------------------------------------------ C14
\* C14: GetProblems returns the collection and leaves it as it was, and a
\* GetProblems that follows a GetProblems returns what the first returned.
C14_GetProblemsIdempotent ==
  [][op' = "GetProblems"
       => /\ problems' = problems
          /\ returned' = problems
          /\ (op = "GetProblems" => returned' = returned)]_vars

\* GetProblems returned a collection of findings from two calls.
C14_Witness ==
  /\ op = "GetProblems"
  /\ Len(history) = 2
  /\ Len(returned) >= 2
  /\ returned = problems

\* ------------------------------------------------------------------ C15
\* C15: no analyzer divides by zero.  DetectBitrateVariations divides only
\* with at least one window and a strictly positive mean, for zero-size
\* packets and for packets all in one window too; DetectKeyframeIssues
\* averages over at least one interval; with fewer than 2 packets, with no
\* window, or with no frame, the call appends nothing.
C15_NoDivisionByZero ==
  /\ op = "DetectBitrateVariations"
       => /\ \A j \in DOMAIN BitrateDivisors(packets) :
               BitrateDivisors(packets)[j] > 0
          /\ (Len(packets) >= 2 /\ Windows # <<>>)
               => (BitrateDivisors(packets) # <<>> /\ SumSeq(Windows) > 0)
          /\ (Len(packets) < 2 \/ Windows = <<>>) => Appended = <<>>
  /\ op = "DetectKeyframeIssues"
       => /\ \A j \in DOMAIN KeyframeDivisors(frames) :
               KeyframeDivisors(frames)[j] >= 1
          /\ KeyframeCount(frames) >= 2 => KeyframeDivisors(frames) # <<>>
          /\ frames = <<>> => Appended = <<>>

\* Packets of size zero that span more than one window: the windows that
\* close hold no bytes, no point is recorded and nothing is divided.
C15_Witness ==
  /\ op = "DetectBitrateVariations"
  /\ Len(packets) >= 2
  /\ \A i \in DOMAIN packets : packets[i].Size = 0
  /\ packets[Len(packets)].PTS > packets[1].PTS + timeWindow
  /\ BitrateDivisors(packets) = <<>>
  /\ Appended = <<>>

\* ------------------------------------------------------------------ C16
KeyIndices(fr) == { i \in DOMAIN fr : fr[i].KeyFrame }

LargeKeyframeIntervalWarning ==
  [Severity |-> "Warning", Category |-> "Keyframe",
   Code |-> "LARGE_KEYFRAME_INTERVAL", Args |-> <<>>, Timestamp |-> 0]

NonMonotonicDtsAt(n) ==
  SelectSeq(Appended,
            LAMBDA f : f.Code = "NON_MONOTONIC_DTS" /\ f.Args = << n >>)

DtsBackwards(fr, i) ==
  fr[i - 1].DTS > 0 /\ fr[i].DTS > 0 /\ fr[i].DTS < fr[i - 1].DTS

\* C17: for each adjacent pair (i-1, i) DetectTimestampIssues appends
\* NON_MONOTONIC_DTS (an Error, once) iff both DTS are > 0 and
\* DTS[i] < DTS[i-1]; when either DTS of the pair is <= 0 it appends neither
\* NON_MONOTONIC_DTS nor PTS_BEFORE_DTS for the pair.
C17_DtsChecksNeedBothDts ==
  op = "DetectTimestampIssues"
    => /\ \A i \in 2..Len(frames) :
            /\ NonMonotonicDtsAt(i - 1)
                 = (IF DtsBackwards(frames, i)
                    THEN << [Severity |-> "Error", Category |-> "Timestamp",
                             Code |-> "NON_MONOTONIC_DTS", Args |-> << i - 1 >>,
                             Timestamp |-> frames[i].PTS] >>
                    ELSE <<>>)
            /\ (frames[i - 1].DTS <= 0 \/ frames[i].DTS <= 0)
                 => (NonMonotonicDtsAt(i - 1) = <<>> /\ PtsBeforeDtsAt(i - 1) = <<>>)
       /\ Len(WithCode(Appended, "NON_MONOTONIC_DTS"))
            = Cardinality({ i \in 2..Len(frames) : DtsBackwards(frames, i) })

\* One pair whose DTS went backwards and was reported, and one pair with a
\* DTS absent whose frame has its PTS below its DTS and was not.
C17_Witness ==
  /\ op = "DetectTimestampIssues"
  /\ \E i \in 2..Len(frames) :
       DtsBackwards(frames, i) /\ Len(NonMonotonicDtsAt(i - 1)) = 1
  /\ \E i \in 2..Len(frames) :
       /\ frames[i - 1].DTS = 0
       /\ frames[i].PTS < frames[i].DTS
       /\ PtsBeforeDtsAt(i - 1) = <<>>

\* ------------------------------------------------------------------ C18
LargeGaps(fr) == { i \in 2..Len(fr) : fr[i].PTS - fr[i - 1].PTS > Second }

\* C18: DetectTimestampIssues appends exactly one LARGE_PTS_GAP Warning with
\* timestamp PTS[i] for each adjacent pair (i-1, i) with
\* PTS[i] - PTS[i-1] > 1.0, in input order, none for any other pair, and
\* whatever the other checks find on the pair.
C18_LargePtsGapPerPair ==
  op = "DetectTimestampIssues"
    => LET gaps == WithCode(Appended, "LARGE_PTS_GAP")
           S == LargeGaps(frames)
       IN /\ Len(gaps) = Cardinality(S)
          /\ \A n \in 1..Len(gaps) :
               gaps[n] = LargePtsGapAt(Nth(S, n) - 1, frames[Nth(S, n)].PTS)

\* A pair with a large PTS gap whose DTS went backwards: both are reported.
C18_Witness ==
  /\ op = "DetectTimestampIssues"
  /\ \E i \in LargeGaps(frames) :
       /\ DtsBackwards(frames, i)
       /\ Len(NonMonotonicDtsAt(i - 1)) = 1
       /\ \E n \in DOMAIN Appended :
            Appended[n] = LargePtsGapAt(i - 1, frames[i].PTS)

\* ------------------------------------------------------------------ C19
PtsJumps(pk) == { i \in 2..Len(pk) : 2 * (pk[i].PTS - pk[i - 1].PTS) > Second }

PotentialPacketLoss(ts) ==
  [Severity |-> "Warning", Category |-> "PacketLoss",
   Code |-> "POTENTIAL_PACKET_LOSS", Args |-> <<>>, Timestamp |-> ts]

\* C19: DetectPacketLoss appends exactly one POTENTIAL_PACKET_LOSS Warning
\* with timestamp PTS[i] for each adjacent pair with PTS[i] - PTS[i-1] > 0.5,
\* in pair order, and nothing else: as many findings as such pairs.
C19_OneLossPerJump ==
  op = "DetectPacketLoss"
    => LET S == PtsJumps(packets)
       IN /\ Len(Appended) = Cardinality(S)
          /\ \A n \in 1..Len(Appended) :
               Appended[n] = PotentialPacketLoss(packets[Nth(S, n)].PTS)

\* Three packets: a jump of exactly 0.5 (not reported), then a jump above
\* it (reported).
C19_Witness ==
  /\ op = "DetectPacketLoss"
  /\ Len(packets) = 3
  /\ 2 * (packets[2].PTS - packets[1].PTS) = Second
  /\ 2 * (packets[3].PTS - packets[2].PTS) > Second
  /\ Appended = << PotentialPacketLoss(packets[3].PTS) >>

\* ------------------------------------------------------------------ C20
\* The spellings of a lower-case word that differ from it in case only,
\* among the strings passed in.
EqualFold(s, word) ==
  CASE word = "h264" -> s \in { "h264", "H264" }
    [] word = "high" -> s \in { "high", "High", "HIGH" }
    [] word = "hevc" -> s \in { "hevc", "HEVC" }
    [] word = "h265" -> s \in { "h265", "H265" }
    [] word = "mkv" -> s \in { "mkv", "MKV" }
    [] word = "matroska" -> s \in { "matroska", "Matroska" }

\* C20: AnalyzeCompatibility appends exactly one H264_COMPATIBILITY Warning
\* iff codec is h264 and profile is high, in any case, and level > 41; its
\* message shows the level as (level div 10).(level mod 10), 50 as 5.0.
C20_H264AboveLevel41 ==
  op = "AnalyzeCompatibility"
    => LET h264 == WithCode(Appended, "H264_COMPATIBILITY")
       IN IF EqualFold(compat.codec, "h264") /\ EqualFold(compat.profile, "high")
               /\ compat.level > 41
          THEN /\ Len(h264) = 1
               /\ h264[1].Severity = "Warning"
               /\ Len(h264[1].Args) = 2
               /\ h264[1].Args[2] \in 0..9
               /\ 10 * h264[1].Args[1] + h264[1].Args[2] = compat.level
               /\ compat.level = 50 => h264[1].Args = << 5, 0 >>
          ELSE h264 = <<>>

\* Codec and profile in upper-case spellings at level 5.0.
C20_Witness ==
  /\ op = "AnalyzeCompatibility"
  /\ compat.codec = "H264"
  /\ compat.profile = "High"
  /\ compat.level = 50
  /\ Len(WithCode(Appended, "H264_COMPATIBILITY")) = 1
  /\ WithCode(Appended, "H264_COMPATIBILITY")[1].Args = << 5, 0 >>

\* ------------------------------------------------------------------ C21
Codes(s) == [j \in DOMAIN s |-> s[j].Code]

InfoFindings(s) == SelectSeq(s, LAMBDA f : f.Severity = "Info")

\* C21: AnalyzeCompatibility appends HEVC_SUPPORT (Info) exactly when codec
\* is hevc or h265 and CONTAINER_COMPATIBILITY (Info) exactly when container
\* is mkv or matroska, in any case and whatever the other arguments are, in
\* the order H264_COMPATIBILITY, HEVC_SUPPORT, CONTAINER_COMPATIBILITY.
C21_HevcAndContainerRules ==
  op = "AnalyzeCompatibility"
    => /\ Codes(Appended)
            = (IF EqualFold(compat.codec, "h264")
                    /\ EqualFold(compat.profile, "high") /\ compat.level > 41
               THEN << "H264_COMPATIBILITY" >> ELSE <<>>)
              \o (IF EqualFold(compat.codec, "hevc")
                       \/ EqualFold(compat.codec, "h265")
                  THEN << "HEVC_SUPPORT" >> ELSE <<>>)
              \o (IF EqualFold(compat.container, "mkv")
                       \/ EqualFold(compat.container, "matroska")
                  THEN << "CONTAINER_COMPATIBILITY" >> ELSE <<>>)
       /\ Codes(InfoFindings(Appended))
            = SelectSeq(Codes(Appended),
                        LAMBDA c : c \in { "HEVC_SUPPORT", "CONTAINER_COMPATIBILITY" })

\* An HEVC stream in a Matroska container: both notes, in that order.
C21_Witness ==
  /\ op = "AnalyzeCompatibility"
  /\ compat.codec = "HEVC"
  /\ compat.container = "Matroska"
  /\ Codes(Appended) = << "HEVC_SUPPORT", "CONTAINER_COMPATIBILITY" >>

\* ------------------------------------------------------------------ C22
\* C22: for a packet sequence of fewer than 2 elements DetectBitrateVariations
\* and DetectPacketLoss append nothing and leave the collection as it was.
C22_FewerThanTwoPackets ==
  (op \in { "DetectBitrateVariations", "DetectPacketLoss" } /\ Len(packets) < 2)
    => (Appended = <<>> /\ problems = before)

\* A one-packet call of each analyzer on a Detector that holds findings.
C22_Witness ==
  /\ Len(history) = 2
  /\ history[1].block # <<>>
  /\ op = "DetectPacketLoss"
  /\ Len(packets) = 1
  /\ packets[1].PTS > 0
  /\ problems = history[1].block

\* ------------------------------------------------------------------ C23
\* C23: in every state of a Detector, two findings with the same code have
\* the same severity and the same category.
C23_CodeDeterminesKind ==
  \A i, j \in DOMAIN problems :
    problems[i].Code = problems[j].Code
      => (/\ problems[i].Severity = problems[j].Severity
          /\ problems[i].Category = problems[j].Category)

\* Findings of one code from two different calls, and of one code twice
\* from one call.
C23_Witness ==
  /\ OnDetector
  /\ Len(history) = 2
  /\ \E i \in DOMAIN history[1].block, j \in DOMAIN history[2].block :
       history[1].block[i].Code = history[2].block[j].Code
  /\ \E i, j \in DOMAIN history[2].block :
       i # j /\ history[2].block[i].Code = history[2].block[j].Code

\* ------------------------------------------------------------------ C24
\* C24: the export command with --export-bitrate set, whatever the other
\* export flags are, writes bitrate_timeline.json whenever the input, probed
\* without error, has a packet of positive size.
C24_ExportBitrateWritesTimeline ==
  (/\ op = "runExport"
   /\ export.flags.exportBitrate
   /\ run.outcome = "ok"
   /\ ~run.probe.packetsErr
   /\ \E i \in DOMAIN run.probe.packets : run.probe.packets[i].Size > 0)
    => "bitrate_timeline.json" \in export.files

\* ------------------------------------------------------------------ C25
KeepCount(limit, n) == IF limit > 0 /\ limit < n THEN limit ELSE n

FirstOf(s, n) == [i \in 1..n |-> s[i]]

CallsOf(name) == SelectSeq(history, LAMBDA call : call.op = name)

\* C25: AnalyzeWithDetails keeps the first min(m, n) of the n probed packets
\* for MaxPackets = m > 0 and all of them for m <= 0, in probe order; the
\* packet analyzers and the bitrate timeline (window 1.0) are computed from
\* exactly the packets kept; MaxFrames does the same for the frames and the
\* frame analyzers.
C25_LimitsKeepPrefix ==
  (op = "AnalyzeWithDetails" /\ run.outcome = "ok")
    => LET o == run.options
           pr == run.probe
           pk == FirstOf(pr.packets, KeepCount(o.MaxPackets, Len(pr.packets)))
           fr == FirstOf(pr.frames, KeepCount(o.MaxFrames, Len(pr.frames)))
       IN /\ (o.AnalyzePackets /\ ~pr.packetsErr)
               => /\ packets = pk
                  /\ timeline = (IF pk = <<>> THEN <<>>
                                 ELSE BitrateTimeline(pk, Second))
                  /\ pk # <<>>
                       => /\ CallsOf("DetectBitrateVariations")
                               = << Call("DetectBitrateVariations", pk, <<>>,
                                         NoCompat, BitrateFindings(pk)) >>
                          /\ CallsOf("DetectPacketLoss")
                               = << Call("DetectPacketLoss", pk, <<>>,
                                         NoCompat, PacketLossFindings(pk)) >>
          /\ (o.AnalyzeFrames /\ ~pr.framesErr)
               => /\ frames = fr
                  /\ fr # <<>>
                       => /\ CallsOf("DetectKeyframeIssues")
                               = << Call("DetectKeyframeIssues", <<>>, fr,
                                         NoCompat, KeyframeFindings(fr)) >>
                          /\ CallsOf("DetectTimestampIssues")
                               = << Call("DetectTimestampIssues", <<>>, fr,
                                         NoCompat, TimestampFindings(fr)) >>

\* Six packets and five frames probed, one of each kept.
C25_Witness ==
  /\ op = "AnalyzeWithDetails"
  /\ run.outcome = "ok"
  /\ run.options.MaxPackets = 1
  /\ run.options.MaxFrames = 1
  /\ run.probe.packets = SpikeExample
  /\ run.probe.frames = BackstepFrames
  /\ packets = << SpikeExample[1] >>
  /\ frames = << BackstepFrames[1] >>
  /\ Len(timeline) = 1
  /\ Len(history) >= 4

\* ------------------------------------------------------------------ C29
\* C29: whenever the basic probe succeeds AnalyzeWithDetails returns a
\* result; with a video stream present and the format info absent it does
\* not read the container name of the absent format.
C29_ReturnsWhenProbeSucceeds ==
  (op = "AnalyzeWithDetails" /\ ~run.probe.err) => run.outcome = "ok"

\* ------------------------------------------------------------------ C26
\* C26: the Timeline that generateFrameVisualization returns has at most
\* 1000 entries, for any number of video frames.
C26_TimelineAtMost1000 ==
  (op = "generateFrameVisualization" /\ viz.pc = "done")
    => Len(viz.result.Timeline) <= 1000

\* ------------------------------------------------------------------ C30
TypedVideoFrames(fr) ==
  \A i \in DOMAIN fr :
    fr[i].MediaType \in { "video", "VIDEO" } => fr[i].PictType \in { "I", "P", "B" }

VideoFrameCount(fr) ==
  Cardinality({ i \in DOMAIN fr : fr[i].MediaType \in { "video", "VIDEO" } })

\* C30: for video frames of picture types I, P or B the FrameCount values
\* of the GOPs that generateFrameVisualization returns sum to the number of
\* video frames: every video frame is counted in exactly one GOP.
C30_FrameCountsSumToFrames ==
  (op = "generateFrameVisualization" /\ viz.pc = "done"
     /\ TypedVideoFrames(viz.frames))
    => LET gops == viz.result.GOPStructure
       IN SumOver([j \in DOMAIN gops |-> gops[j].FrameCount], DOMAIN gops)
            = VideoFrameCount(viz.frames)

\* ------------------------------------------------------------------ C27
\* No packet after the first is later than its window's start + 1.0.
NoRolloverAfterFirst(pk) ==
  \A k \in 2..Len(pk) : ~(pk[k].PTS > DetectorAnchor(pk, k - 1) + Second)

\* pk with the size of every packet of the trailing window set to size.
WithTrailingSize(pk, size) ==
  [k \in DOMAIN pk |->
     IF DetectorWindowOf(pk, k) = DetectorWindowOf(pk, Len(pk))
     THEN PacketInfo(pk[k].PTS, size) ELSE pk[k]]

\* C27: DetectBitrateVariations never counts the bytes accumulated after
\* the last window rollover: the findings are those of the same packets
\* with any other sizes in the trailing window, and a sequence with no
\* rollover after its first window has begun yields no finding, whatever
\* the sizes.
C27_TrailingWindowNotCounted ==
  op = "DetectBitrateVariations"
    => /\ NoRolloverAfterFirst(packets) => Appended = <<>>
       /\ \A size \in { 0, 1, BigSize } :
            BitrateFindings(WithTrailingSize(packets, size)) = Appended

\* Windows of 1 byte each and a trailing window of BigSize bytes, which
\* would be a spike if it were counted: no finding.
C27_Witness ==
  /\ op = "DetectBitrateVariations"
  /\ Len(packets) >= 4
  /\ \A k \in 1..(Len(packets) - 1) : packets[k].Size = 1
  /\ packets[Len(packets)].Size = BigSize
  /\ DetectorWindowOf(packets, Len(packets)) >= 3
  /\ DetectorWindowOf(packets, Len(packets) - 1)
       < DetectorWindowOf(packets, Len(packets))
  /\ Appended = <<>>

\* ------------------------------------------------------------------ C28
\* The bytes of a point: bitrate x windowSize / 8, with bitrate = Num / Den
\* bits per second and windowSize in ticks.
PointBytes(point, w) == (point.Num * w) \div (point.Den * 8 * Second)

\* C28: for packets of non-negative sizes and windowSize > 0 the points of
\* GenerateBitrateTimeline hold, as bitrate x windowSize / 8, exactly the
\* bytes of the packets: their sum is the sum of the packet sizes.
C28_TimelineConservesBytes ==
  (/\ op = "GenerateBitrateTimeline"
   /\ windowSize > 0
   /\ \A k \in DOMAIN packets : packets[k].Size >= 0)
    => /\ \A j \in DOMAIN timeline :
            (timeline[j].Num * windowSize) % (timeline[j].Den * 8 * Second) = 0
       /\ SumOver([j \in DOMAIN timeline |-> PointBytes(timeline[j], windowSize)],
                  DOMAIN timeline)
            = SumOver([k \in DOMAIN packets |-> packets[k].Size], DOMAIN packets)

\* Three packets in more than one window, one of them of size zero.
C28_Witness ==
  /\ op = "GenerateBitrateTimeline"
  /\ windowSize > 0
  /\ Len(packets) = 3
  /\ Len(timeline) >= 2
  /\ \E k \in DOMAIN packets : packets[k].Size = 0
  /\ SumOver([k \in DOMAIN packets |-> packets[k].Size], DOMAIN packets) = 2

====
